---- MODULE Spec2Model ----
(***************************************************************************)
(* A model of the single-process proof-of-work node of src/src/main.rs:    *)
(* the hashing helpers, the Merkle aggregation, the difficulty predicate,  *)
(* the miner, the sled-backed chain store and the main loop.               *)
(*                                                                         *)
(* Rust Strings are sequences of symbols (one-character strings, and the   *)
(* labels "genesis", "miner_1", "addr_k" taken as one symbol each).  Byte  *)
(* vectors are sequences of naturals.  SHA-256 is a deterministic fold     *)
(* over the bytes into a digest of HexLen hex characters instead of 64.    *)
(***************************************************************************)
EXTENDS Naturals, Sequences, FiniteSets, TLC

\* ------------------------------------------------------------------------
\* Bounds of the model
\* ------------------------------------------------------------------------

\* Hex characters of a digest (the program: 64).
HexLen == 2
\* Nonces drawn by the miner are 0..MaxNonce (the program: any u64).
MaxNonce == 3
\* Clock readings are 0..MaxTime (the program: any i64).
MaxTime == 1
\* Difficulties tried on the miner and the difficulty predicate are 0..MaxDifficulty.
MaxDifficulty == 8
\* Transactions in a list handed to the miner.
MaxTxs == 2
\* Characters of a hash string handed to the difficulty predicate.
MaxLen == 2
\* Mined blocks main saves, over all its runs.
MaxRounds == 2
\* Times the process is started again.
MaxRestarts == 1
\* Calls made on a ChainDB by the store's harness.
MaxCalls == 3
\* Transactions in a list handed to merkle_root.
MaxLeaves == 4

\* ------------------------------------------------------------------------
\* Strings and bytes
\* ------------------------------------------------------------------------

HexChars == <<"0", "1", "2", "3", "4", "5", "6", "7",
              "8", "9", "a", "b", "c", "d", "e", "f">>

\* Every symbol a String of the model can hold: characters, the labels, and the
\* JSON punctuation.  A symbol's byte is its position minus one, so a decimal
\* or hex digit has its own value as its byte.
Alphabet == HexChars \o <<"l", "t", "s", "genesis", "miner_1", "addr_0", "addr_1",
                          "\"", ",", "{", "}", "[", "]">>

ByteOf(c) == (CHOOSE i \in 1..Len(Alphabet) : Alphabet[i] = c) - 1

\* A byte that is part of no valid UTF-8 text.
BadByte == Len(Alphabet)

\* str::as_bytes
as_bytes(s) == [i \in 1..Len(s) |-> ByteOf(s[i])]

IsUtf8(bs) == \A i \in 1..Len(bs) : bs[i] < Len(Alphabet)

\* String::from_utf8, of bytes that are valid UTF-8
from_utf8(bs) == [i \in 1..Len(bs) |-> Alphabet[bs[i] + 1]]

\* ------------------------------------------------------------------------
\* Types (main.rs 14-36)
\* ------------------------------------------------------------------------

Transaction(from, to, amount) == [from |-> from, to |-> to, amount |-> amount]

BlockHeader(parent_hash, merkle, timestamp, nonce, difficulty, miner) ==
    [parent_hash |-> parent_hash, merkle_root |-> merkle, timestamp |-> timestamp,
     nonce |-> nonce, difficulty |-> difficulty, miner |-> miner]

Block(header, txs, hash) == [header |-> header, txs |-> txs, hash |-> hash]

\* ------------------------------------------------------------------------
\* serde_json::to_string / to_vec: a value's JSON text, as bytes.  Field names
\* are left out; the fields come in declaration order, separated by commas,
\* strings between quotes, numbers in decimal.
\* ------------------------------------------------------------------------

RECURSIVE JoinComma(_)
JoinComma(ss) ==
    IF ss = <<>> THEN <<>>
    ELSE IF Len(ss) = 1 THEN ss[1]
    ELSE ss[1] \o <<ByteOf(",")>> \o JoinComma(Tail(ss))

json_str(s) == <<ByteOf("\"")>> \o as_bytes(s) \o <<ByteOf("\"")>>

RECURSIVE json_num(_)
json_num(n) == IF n < 10 THEN <<n>> ELSE json_num(n \div 10) \o <<n % 10>>

\* The fields are bound to their values once.
json_object(fields) ==
    CHOOSE text \in {<<ByteOf("{")>> \o JoinComma(parts) \o <<ByteOf("}")>> :
                        parts \in {fields}} : TRUE

json_tx(t) == json_object(<<json_str(t.from), json_str(t.to), json_num(t.amount)>>)

json_header(h) ==
    json_object(<<json_str(h.parent_hash), json_str(h.merkle_root),
                  json_num(h.timestamp), json_num(h.nonce), json_num(h.difficulty),
                  json_str(h.miner)>>)

json_block(b) ==
    json_object(<<json_header(b.header),
                  <<ByteOf("[")>> \o JoinComma([i \in 1..Len(b.txs) |-> json_tx(b.txs[i])])
                      \o <<ByteOf("]")>>,
                  json_str(b.hash)>>)

\* ------------------------------------------------------------------------
\* serde_json::from_slice::<Block>: a parser of that text.  Each parse_x(bs, i)
\* reads an x at position i and gives the value and the position after it.
\* ------------------------------------------------------------------------

Fail == [ok |-> FALSE]

Parsed(v, n) == [ok |-> TRUE, val |-> v, next |-> n]

expect(bs, i, c) == i <= Len(bs) /\ bs[i] = ByteOf(c)

\* The text between the quote at position i and the first quote at j.
quoted(bs, i, j) ==
    IF IsUtf8(SubSeq(bs, i + 1, j - 1))
    THEN Parsed(from_utf8(SubSeq(bs, i + 1, j - 1)), j + 1)
    ELSE Fail

FirstQuote(bs, from) ==
    CHOOSE j \in from..(Len(bs) + 1) :
        /\ j <= Len(bs) => bs[j] = ByteOf("\"")
        /\ \A k \in from..(j - 1) : bs[k] # ByteOf("\"")

parse_str(bs, i) ==
    IF expect(bs, i, "\"") /\ \E j \in (i + 1)..Len(bs) : bs[j] = ByteOf("\"")
    THEN quoted(bs, i, FirstQuote(bs, i + 1))
    ELSE Fail

RECURSIVE NumOf(_)
NumOf(ds) == IF ds = <<>> THEN 0 ELSE NumOf(SubSeq(ds, 1, Len(ds) - 1)) * 10 + ds[Len(ds)]

\* The first position from i on that holds no digit.
DigitsEnd(bs, i) ==
    CHOOSE j \in i..(Len(bs) + 1) :
        /\ j <= Len(bs) => bs[j] >= 10
        /\ \A k \in i..(j - 1) : bs[k] < 10

number(bs, i, stop) == Parsed(NumOf(SubSeq(bs, i, stop - 1)), stop)

parse_num(bs, i) ==
    IF i <= Len(bs) /\ bs[i] < 10 THEN number(bs, i, DigitsEnd(bs, i)) ELSE Fail

RECURSIVE parse_value(_, _, _)
RECURSIVE parse_fields(_, _, _, _)
RECURSIVE parse_elements(_, _, _, _)

\* The fields of a struct, in declaration order.
FieldsOf(kind) ==
    CASE kind = "tx" -> <<"str", "str", "num">>
      [] kind = "header" -> <<"str", "str", "num", "num", "num", "str">>
      [] kind = "block" -> <<"header", "txs", "str">>

\* The struct of its parsed fields.
StructOf(kind, f) ==
    CASE kind = "tx" -> Transaction(f[1], f[2], f[3])
      [] kind = "header" -> BlockHeader(f[1], f[2], f[3], f[4], f[5], f[6])
      [] kind = "block" -> Block(f[1], f[2], f[3])

\* Goes on after the field v, read at position i or after the comma there.
field_parsed(bs, i, v, kinds, acc) ==
    IF (acc = <<>> \/ expect(bs, i, ",")) /\ v.ok
    THEN parse_fields(bs, v.next, Tail(kinds), Append(acc, v.val))
    ELSE Fail

\* The values of the given kinds from position i on, after those in acc, each but
\* the first after a comma.
parse_fields(bs, i, kinds, acc) ==
    IF kinds = <<>> THEN Parsed(acc, i)
    ELSE field_parsed(bs, i, parse_value(bs, IF acc = <<>> THEN i ELSE i + 1, Head(kinds)),
                      kinds, acc)

\* The struct of the fields f, when a "}" follows them.
struct_closed(bs, kind, f) ==
    IF f.ok /\ expect(bs, f.next, "}")
    THEN Parsed(StructOf(kind, f.val), f.next + 1)
    ELSE Fail

\* A struct: its fields between braces.
parse_struct(bs, i, kind) ==
    IF expect(bs, i, "{")
    THEN struct_closed(bs, kind, parse_fields(bs, i + 1, FieldsOf(kind), <<>>))
    ELSE Fail

\* Goes on after the element v of a Vec.
element_parsed(bs, v, kind, acc) ==
    IF ~v.ok THEN Fail
    ELSE IF expect(bs, v.next, ",")
         THEN parse_elements(bs, v.next + 1, kind, Append(acc, v.val))
    ELSE IF expect(bs, v.next, "]") THEN Parsed(Append(acc, v.val), v.next + 1)
    ELSE Fail

\* The elements of a Vec from position i on, after those in acc, to its "]".
parse_elements(bs, i, kind, acc) ==
    IF acc = <<>> /\ expect(bs, i, "]") THEN Parsed(acc, i + 1)
    ELSE element_parsed(bs, parse_value(bs, i, kind), kind, acc)

parse_value(bs, i, kind) ==
    CASE kind = "str" -> parse_str(bs, i)
      [] kind = "num" -> parse_num(bs, i)
      [] kind = "txs" ->
            IF expect(bs, i, "[") THEN parse_elements(bs, i + 1, "tx", <<>>) ELSE Fail
      [] OTHER -> parse_struct(bs, i, kind)

\* The value, when the text ends after it.
whole_slice(bs, v) == IF v.ok /\ v.next = Len(bs) + 1 THEN v ELSE Fail

\* serde_json::from_slice::<Block>: the whole slice must be one Block.
from_slice(bs) == whole_slice(bs, parse_value(bs, 1, "block"))

\* ------------------------------------------------------------------------
\* Sha256 and hex::encode
\* ------------------------------------------------------------------------

Modulus == 16 ^ HexLen

RECURSIVE Sha256From(_, _)
Sha256From(acc, bs) ==
    IF bs = <<>> THEN acc
    ELSE Sha256From((acc * 5 + Head(bs) + 1) % Modulus, Tail(bs))

\* Sha256::new(), update(bytes), finalize(): the digest as a number below Modulus.
\* The digest of the bytes (main.rs 44-46); the bytes are bound to their value
\* once.
Sha256(bs) == CHOOSE digest \in {Sha256From(11 % Modulus, data) : data \in {bs}} : TRUE

\* hex::encode: HexLen lowercase hex characters, most significant first.
hex_encode(n) == [i \in 1..HexLen |-> HexChars[((n \div (16 ^ (HexLen - i))) % 16) + 1]]

hash_block_header(h) == hex_encode(Sha256(json_header(h)))

hash_block(block) == hex_encode(Sha256(json_block(block)))

\* A level that pairs a lone last entry with itself.
RECURSIVE merkle_level_DuplicatesOdd(_)
merkle_level_DuplicatesOdd(leaves) ==
    IF leaves = <<>> THEN <<>>
    ELSE IF Len(leaves) = 1
         THEN <<hex_encode(Sha256(as_bytes(leaves[1]) \o as_bytes(leaves[1])))>>
    ELSE <<hex_encode(Sha256(as_bytes(leaves[1]) \o as_bytes(leaves[2])))>>
             \o merkle_level_DuplicatesOdd(SubSeq(leaves, 3, Len(leaves)))

\* A fold whose result is the digest of its first two leaves put smaller first.
merkle_fold_SortsPair(leaves) ==
    IF Len(leaves) > 1
    THEN LET a == leaves[1]
             b == leaves[2]
             firstSmaller == \E i \in 1..Len(a) :
                                 /\ a[i] # b[i]
                                 /\ \A j \in 1..(i - 1) : a[j] = b[j]
                                 /\ as_bytes(a)[i] < as_bytes(b)[i]
         IN  IF firstSmaller THEN hex_encode(Sha256(as_bytes(a) \o as_bytes(b)))
             ELSE hex_encode(Sha256(as_bytes(b) \o as_bytes(a)))
    ELSE leaves[1]

\* One level of the Merkle fold: leaves.chunks(2), a lone last entry carried over.
RECURSIVE merkle_level(_)
merkle_level(leaves) ==
    IF leaves = <<>> THEN <<>>
    ELSE IF Len(leaves) = 1 THEN <<leaves[1]>>
    ELSE <<hex_encode(Sha256(as_bytes(leaves[1]) \o as_bytes(leaves[2])))>>
             \o merkle_level(SubSeq(leaves, 3, Len(leaves)))

\* The while loop (main.rs 71-85); `next` is bound to its value once, as the
\* code's variable is.
RECURSIVE merkle_fold(_)
merkle_fold(leaves) ==
    IF Len(leaves) > 1
    THEN CHOOSE root \in {merkle_fold(next) : next \in {merkle_level(leaves)}} : TRUE
    ELSE leaves[1]

\* The leaf digests, in input order (main.rs 61-69).
leaf_digests(txs) == [i \in 1..Len(txs) |-> hex_encode(Sha256(json_tx(txs[i])))]

merkle_root(txs) ==
    IF txs = <<>> THEN <<>>
    ELSE CHOOSE root \in {merkle_fold(leaves) : leaves \in {leaf_digests(txs)}} : TRUE

\* ------------------------------------------------------------------------
\* Mining / PoW
\* ------------------------------------------------------------------------

repeat(c, n) == [i \in 1..n |-> c]

starts_with(s, prefix) ==
    /\ Len(prefix) <= Len(s)
    /\ SubSeq(s, 1, Len(prefix)) = prefix

\* meets_difficulty with the number of required characters rounded up.
meets_difficulty_RoundsUp(hex_hash, difficulty) ==
    LET needed == (difficulty + 3) \div 4
    IN  starts_with(hex_hash, repeat("0", needed))

meets_difficulty(hex_hash, difficulty) ==
    LET needed == difficulty \div 4
    IN  starts_with(hex_hash, repeat("0", needed))

\* The hash of an iteration's header, the test on it and the block it would
\* return (main.rs 141-148).
attempt_result(header_for_hash, txs) ==
    CHOOSE r \in {[found |-> meets_difficulty(h, header_for_hash.difficulty),
                    block |-> Block(header_for_hash, txs, h)] :
                      h \in {hash_block_header(header_for_hash)}} : TRUE

\* mine_attempt that returns on its first iteration, whatever the hash.
mine_attempt_AcceptsAny(header_template, txs, nonce) ==
    [found |-> TRUE,
     block |-> Block([header_template EXCEPT !.nonce = nonce,
                                             !.merkle_root = merkle_root(txs)],
                     txs,
                     hash_block_header([header_template EXCEPT
                                            !.nonce = nonce,
                                            !.merkle_root = merkle_root(txs)]))]

\* mine_attempt that hashes the template's nonce on every iteration.
mine_attempt_KeepsNonce(header_template, txs, nonce) ==
    CHOOSE r \in {attempt_result(header_for_hash, txs) :
                     header_for_hash \in {[header_template EXCEPT
                                              !.merkle_root = merkle_root(txs)]}} : TRUE

\* mine_attempt leaving the template's merkle_root in the header.
mine_attempt_KeepsTemplateRoot(header_template, txs, nonce) ==
    LET header == [header_template EXCEPT !.nonce = nonce]
        h == hash_block_header(header)
    IN  [found |-> meets_difficulty(h, header.difficulty),
         block |-> Block(header, txs, h)]

\* mine_attempt hashing the header before it recomputes the merkle_root.
mine_attempt_HashesTemplate(header_template, txs, nonce) ==
    LET header == [header_template EXCEPT !.nonce = nonce]
        header_for_hash == [header EXCEPT !.merkle_root = merkle_root(txs)]
        h == hash_block_header(header)
    IN  [found |-> meets_difficulty(h, header_for_hash.difficulty),
         block |-> Block(header_for_hash, txs, h)]

\* One iteration of mine_block's loop, with the nonce it drew (main.rs 137-149);
\* header_for_hash is bound to its value once, as the code's variable is.
mine_attempt(header_template, txs, nonce) ==
    LET header == [header_template EXCEPT !.nonce = nonce]
    IN  CHOOSE r \in {attempt_result(header_for_hash, txs) :
                         header_for_hash \in {[header EXCEPT
                                                  !.merkle_root = merkle_root(txs)]}} : TRUE

\* ------------------------------------------------------------------------
\* Storage wrapper (sled): a store maps byte keys to byte values
\* ------------------------------------------------------------------------

EmptyStore == [k \in {} |-> <<>>]

Put(store, key, val) ==
    [k \in DOMAIN store \cup {key} |-> IF k = key THEN val ELSE store[k]]

RECURSIVE Apply(_, _)
Apply(store, writes) ==
    IF writes = <<>> THEN store
    ELSE Apply(Put(store, Head(writes)[1], Head(writes)[2]), Tail(writes))

LATEST == as_bytes(<<"l", "a", "t", "e", "s", "t">>)

\* save_block that does not move the latest pointer.
SaveWrites_StalePointer(block) ==
    <<  <<as_bytes(block.hash), json_block(block)>>  >>

\* save_block that keys the block by its parent's hash.
SaveWrites_KeyedByParent(block) ==
    <<  <<as_bytes(block.header.parent_hash), json_block(block)>>,
        <<LATEST, as_bytes(block.header.parent_hash)>>  >>

\* save_block that moves the latest pointer before it inserts the block.
SaveWrites_PointerFirst(block) ==
    <<  <<LATEST, as_bytes(block.hash)>>,
        <<as_bytes(block.hash), json_block(block)>>  >>

\* save_block that keys the block by the name of its miner.
SaveWrites_KeyedByMiner(block) ==
    <<  <<as_bytes(block.header.miner), json_block(block)>>,
        <<LATEST, as_bytes(block.header.miner)>>  >>

\* The inserts of save_block, in the order it makes them (main.rs 103-107).
SaveWrites(block) ==
    <<  <<as_bytes(block.hash), json_block(block)>>,
        <<LATEST, as_bytes(block.hash)>>  >>

\* save_block that leaves the store alone unless the block names the tip as its
\* parent, or there is no tip.
save_block_ChecksParent(store, block) ==
    IF /\ LATEST \in DOMAIN store
       /\ IsUtf8(store[LATEST])
       /\ block.header.parent_hash # from_utf8(store[LATEST])
    THEN store
    ELSE Apply(store, SaveWrites(block))

\* The store after a save_block that returned Ok (main.rs 102-110).
save_block(store, block) == Apply(store, SaveWrites(block))

NoHeader == BlockHeader(<<>>, <<>>, 0, 0, 0, <<>>)

NoBlock == Block(NoHeader, <<>>, <<>>)

None == [tag |-> "None", block |-> NoBlock]

Err == [tag |-> "Err", block |-> NoBlock]

Some(b) == [tag |-> "Some", block |-> b]

\* The end of get_latest: the decoded block, or the decoder's error (main.rs 116-117).
decoded(block) == IF block.ok THEN Some(block.val) ELSE Err

\* The inner `if let` of get_latest, falling through to Ok(None) (main.rs 115-120).
get_block(store, key) ==
    IF key \in DOMAIN store THEN decoded(from_slice(store[key])) ELSE None

\* The block the pointer v names (main.rs 114-115).
pointed_block(store, v) ==
    IF IsUtf8(v) THEN get_block(store, as_bytes(from_utf8(v))) ELSE Err

\* get_latest on a store whose reads succeed (main.rs 112-121).
get_latest(store) ==
    IF LATEST \in DOMAIN store THEN pointed_block(store, store[LATEST]) ELSE None

\* ------------------------------------------------------------------------
\* Application (MVP node)
\* ------------------------------------------------------------------------

\* make_genesis, with the clock reading it takes (main.rs 157-175).
\* make_genesis that gives the root a parent hash of zeros, as wide as a digest.
make_genesis_ZeroDigestParent(d, now) ==
    LET header == BlockHeader(repeat("0", HexLen), <<>>, now, 0, d, <<"genesis">>)
    IN  Block(header, <<>>, hash_block_header(header))

\* make_genesis (main.rs 157-175), with the clock's reading.
make_genesis(d, now) ==
    LET header == BlockHeader(<<"0">>, <<>>, now, 0, d, <<"genesis">>)
        txs == <<>>
        header_for_hash == [header EXCEPT !.merkle_root = merkle_root(txs)]
        h == hash_block_header(header_for_hash)
    IN  Block(header_for_hash, txs, h)

\* The chain root: its parent is the literal "0" (main.rs 159).
IsGenesis(b) == b.header.parent_hash = <<"0">>

\* main making a genesis block whatever get_latest returned.
is_none_Always(latest) == TRUE

\* main taking every store for one that holds a chain.
is_none_Never(latest) == FALSE

\* main's test for an empty chain (main.rs 187).
is_none(latest) == latest.tag = "None"

\* A header template that names the parent's own parent.
new_header_GrandParent(parent_block, now, d) ==
    BlockHeader(parent_block.header.parent_hash, <<>>, now, 0, d, <<"miner_1">>)

\* The header template of a round (main.rs 210-217).
new_header(parent_block, now, d) ==
    BlockHeader(parent_block.hash, <<>>, now, 0, d, <<"miner_1">>)

\* A synthetic transaction (main.rs 200-204).
random_tx(from, to, amount) == Transaction(<<from>>, <<to>>, amount)

\* The batches a round may generate: two of the program's many.
Batches ==
    {<<random_tx("addr_0", "addr_1", 10), random_tx("addr_1", "addr_0", 20),
       random_tx("addr_0", "addr_1", 5)>>,
     <<random_tx("addr_1", "addr_0", 20), random_tx("addr_0", "addr_1", 10),
       random_tx("addr_0", "addr_1", 10)>>}

Times == 0..MaxTime

Nonces == 0..MaxNonce

\* main's difficulty (main.rs 184: 12, three zero characters of 64), scaled to a
\* digest of HexLen characters: one zero character, asked for as 4 and as 5.
Difficulties == {4, 5}

\* ------------------------------------------------------------------------
\* State
\* ------------------------------------------------------------------------

VARIABLES
    disk,        \* the store's durable content
    db,          \* the content the open Db shows: disk and the writes not yet flushed
    pending,     \* the writes not yet flushed, in the order they were made: the
                 \* key, the value, and the block whose save_block made the write
    pc,          \* where main is
    difficulty,  \* main's `difficulty`
    mempool,     \* main's `mempool`
    parent,      \* main's `parent`
    header,      \* main's `header`
    block,       \* main's `genesis` or `block`
    hist,        \* history: what has happened so far
    calls,       \* the calls the store's harness has made, with their results
    args,        \* the arguments of a function under test
    ret          \* its result

vars == <<disk, db, pending, pc, difficulty, mempool, parent, header, block, hist,
          calls, args, ret>>

harness == <<calls, args, ret>>

NoHist ==
    [everSaved |-> FALSE,    \* some save_block has returned Ok
     lastSaved |-> NoBlock,  \* the block last saved: its save_block returned Ok, or
                             \* the process ended after both its inserts and kept them
     genesisSaved |-> 0,     \* save_block calls of a genesis block that returned Ok
     resumed |-> FALSE,      \* main has found a chain when it started
     collided |-> FALSE,     \* a block was written over a different block that has
                             \* its hash: no run of the program with SHA-256 does
     restarts |-> 0,         \* times the process has been started again
     height |-> 0,           \* mined blocks saved
     mempoolIds |-> <<>>,    \* for each entry of mempool, the transaction it is: the
                             \* run of main and the round that generated it, and its
                             \* place in that round's batch
     blockIds |-> <<>>]      \* the same for the transactions of a mined `block`

\* The store holds, under the hash of block b, a block that is not b.
Collides(store, b) ==
    /\ as_bytes(b.hash) \in DOMAIN store
    /\ store[as_bytes(b.hash)] # json_block(b)

\* The i-th transaction generated in the current round of the current run: a run's
\* rounds each end with a mined block saved, so no two rounds share one.
TxId(i) == <<hist.restarts, hist.height + 1, i>>

NoRet == [done |-> FALSE, val |-> FALSE]

IdleHarness == calls = <<>> /\ args = <<>> /\ ret = NoRet

\* ------------------------------------------------------------------------
\* main (main.rs 177-231), with the process ending and starting again
\* ------------------------------------------------------------------------

Init ==
    /\ disk = EmptyStore
    /\ db = EmptyStore
    /\ pending = <<>>
    /\ pc = "start"
    /\ difficulty \in Difficulties
    /\ mempool = <<>>
    /\ parent = NoBlock
    /\ header = NoHeader
    /\ block = NoBlock
    /\ hist = NoHist
    /\ IdleHarness

\* ChainDB::open (main.rs 181, 97-100): sled recovers the durable content.
Open ==
    /\ pc = "start"
    /\ db' = disk
    /\ pc' = "boot"
    /\ UNCHANGED <<disk, pending, difficulty, mempool, parent, header, block, hist, harness>>

\* If no chain, make genesis (main.rs 187-188).
Boot ==
    /\ pc = "boot"
    /\ LET latest == get_latest(db)
       IN  IF latest.tag = "Err"
           THEN pc' = "failed" /\ block' = block
           ELSE IF is_none(latest)
           THEN \E now \in Times :
                    /\ block' = make_genesis(difficulty, now)
                    /\ pc' = "genesis_insert"
           ELSE pc' = "populate" /\ block' = block
    /\ hist' = [hist EXCEPT !.resumed = @ \/ get_latest(db).tag = "Some"]
    /\ UNCHANGED <<disk, db, pending, difficulty, mempool, parent, header, harness>>

\* save_block's first insert (main.rs 103-105), of genesis or of a mined block.
SaveInsertBlock ==
    /\ pc \in {"genesis_insert", "block_insert"}
    /\ LET w == SaveWrites(block)[1]
       IN  /\ db' = Put(db, w[1], w[2])
           /\ pending' = Append(pending, <<w[1], w[2], block>>)
    /\ hist' = [hist EXCEPT !.collided = @ \/ Collides(db, block)]
    /\ pc' = IF pc = "genesis_insert" THEN "genesis_latest" ELSE "block_latest"
    /\ UNCHANGED <<disk, difficulty, mempool, parent, header, block, harness>>

\* save_block's second insert (main.rs 107).
SaveInsertLatest ==
    /\ pc \in {"genesis_latest", "block_latest"}
    /\ LET w == SaveWrites(block)[2]
       IN  /\ db' = Put(db, w[1], w[2])
           /\ pending' = Append(pending, <<w[1], w[2], block>>)
    /\ pc' = IF pc = "genesis_latest" THEN "genesis_flush" ELSE "block_flush"
    /\ UNCHANGED <<disk, difficulty, mempool, parent, header, block, hist, harness>>

\* save_block's flush and return (main.rs 108-109); after genesis, main goes on
\* to its loop with an empty mempool (main.rs 190-194).
SaveFlush ==
    /\ pc \in {"genesis_flush", "block_flush"}
    /\ disk' = Apply(disk, pending)
    /\ pending' = <<>>
    /\ hist' = [hist EXCEPT !.everSaved = TRUE, !.lastSaved = block,
                            !.genesisSaved = IF pc = "genesis_flush" THEN @ + 1 ELSE @,
                            !.height = IF pc = "block_flush" THEN @ + 1 ELSE @]
    /\ pc' = IF pc = "genesis_flush" THEN "populate" ELSE "clear"
    /\ UNCHANGED <<db, difficulty, mempool, parent, header, block, harness>>

\* Populate mempool with a few random txs (main.rs 199-206).
Populate ==
    /\ pc = "populate"
    /\ hist.height < MaxRounds
    /\ \E batch \in Batches : mempool' = mempool \o batch
    /\ hist' = [hist EXCEPT !.mempoolIds = @ \o [i \in 1..3 |-> TxId(i)]]
    /\ pc' = "get_parent"
    /\ block' = NoBlock
    /\ UNCHANGED <<disk, db, pending, difficulty, parent, header, harness>>

\* Get parent and build the header (main.rs 209-217).
GetParent ==
    /\ pc = "get_parent"
    /\ LET latest == get_latest(db)
       IN  IF latest.tag = "Some"
           THEN \E now \in Times :
                    /\ parent' = latest.block
                    /\ header' = new_header(latest.block, now, difficulty)
                    /\ pc' = "mine"
           ELSE pc' = "failed" /\ UNCHANGED <<parent, header>>
    /\ UNCHANGED <<disk, db, pending, difficulty, mempool, block, hist, harness>>

\* One iteration of mine_block's loop (main.rs 220, 136-150): it returns the block
\* when the hash meets the difficulty and goes round again when not.
MineWith(nonce) ==
    /\ pc = "mine"
    /\ LET r == mine_attempt(header, mempool, nonce)
       IN  IF r.found
           THEN /\ block' = r.block
                /\ pc' = "block_insert"
                /\ hist' = [hist EXCEPT !.blockIds = hist.mempoolIds]
           ELSE UNCHANGED <<block, pc, hist>>
    /\ UNCHANGED <<disk, db, pending, difficulty, mempool, parent, header, harness>>

\* The iteration with whatever nonce rand draws (main.rs 137).
MineAttempt == \E nonce \in Nonces : MineWith(nonce)

\* The end of a round that leaves the mempool as it is.
Clear_KeepsMempool ==
    /\ pc = "clear"
    /\ block' = NoBlock
    /\ parent' = NoBlock
    /\ header' = NoHeader
    /\ pc' = "populate"
    /\ UNCHANGED <<disk, db, pending, difficulty, mempool, hist, harness>>

\* Clear mempool and sleep; the round's locals go out of scope (main.rs 226-230).
Clear ==
    /\ pc = "clear"
    /\ mempool' = <<>>
    /\ hist' = [hist EXCEPT !.mempoolIds = <<>>, !.blockIds = <<>>]
    /\ block' = NoBlock
    /\ parent' = NoBlock
    /\ header' = NoHeader
    /\ pc' = "populate"
    /\ UNCHANGED <<disk, db, pending, difficulty, harness>>

\* A store call returns an error and main starts over from its first read of the
\* store instead of returning.
StoreError_StartsOver ==
    /\ pc \in {"start", "boot", "get_parent", "genesis_insert", "genesis_latest",
               "genesis_flush", "block_insert", "block_latest", "block_flush"}
    /\ pc' = "boot"
    /\ mempool' = <<>>
    /\ parent' = NoBlock
    /\ header' = NoHeader
    /\ block' = NoBlock
    /\ hist' = [hist EXCEPT !.mempoolIds = <<>>, !.blockIds = <<>>]
    /\ UNCHANGED <<disk, db, pending, difficulty, harness>>

\* A store call returns an error and main returns it, dropping its locals (the ?
\* of main.rs 181-222).
StoreError ==
    /\ pc \in {"start", "boot", "get_parent", "genesis_insert", "genesis_latest",
               "genesis_flush", "block_insert", "block_latest", "block_flush"}
    /\ pc' = "failed"
    /\ mempool' = <<>>
    /\ parent' = NoBlock
    /\ header' = NoHeader
    /\ block' = NoBlock
    /\ hist' = [hist EXCEPT !.mempoolIds = <<>>, !.blockIds = <<>>]
    /\ UNCHANGED <<disk, db, pending, difficulty, harness>>

\* The process ends, killed or after main returned, and is started again.  sled
\* recovers its log up to the first tear: the writes made but not yet flushed
\* are durable up to some point of their order, those of a returned flush all.
Restart ==
    /\ pc # "start"
    /\ hist.restarts < MaxRestarts
    /\ \E k \in 0..Len(pending) :
           /\ disk' = Apply(disk, SubSeq(pending, 1, k))
           /\ hist' = [hist EXCEPT
                          !.restarts = @ + 1, !.mempoolIds = <<>>, !.blockIds = <<>>,
                          !.lastSaved = IF k = 2 THEN pending[2][3] ELSE @,
                          !.height = IF k = 2 /\ ~IsGenesis(pending[2][3]) THEN @ + 1 ELSE @]
    /\ db' = EmptyStore
    /\ pending' = <<>>
    /\ pc' = "start"
    /\ mempool' = <<>>
    /\ parent' = NoBlock
    /\ header' = NoHeader
    /\ block' = NoBlock
    /\ UNCHANGED <<difficulty, harness>>

Next ==
    \/ Open
    \/ Boot
    \/ SaveInsertBlock
    \/ SaveInsertLatest
    \/ SaveFlush
    \/ Populate
    \/ GetParent
    \/ MineAttempt
    \/ Clear
    \/ StoreError
    \/ Restart

Spec == Init /\ [][Next]_vars

\* ------------------------------------------------------------------------
\* ChainDB called directly: save_block and get_latest on a store that may
\* hold anything when it is opened
\* ------------------------------------------------------------------------

SampleTxs == <<random_tx("addr_0", "addr_1", 10), random_tx("addr_1", "addr_0", 20)>>

\* Blocks as a caller may hand them to save_block: the hash field is any hex
\* string, not the hash of the header.
SampleBlocks ==
    {Block(BlockHeader(p, merkle_root(txs), 0, 7, 4, <<"miner_1">>), txs, h) :
        p \in {<<"0">>, <<"a", "1">>},
        txs \in {<<>>, SampleTxs},
        h \in {<<"a", "1">>, <<"0", "7">>}}

\* What the store may hold when it is opened: nothing, a chain of one block, a
\* pointer to a missing block, a pointer to a value that is no block, and a
\* pointer that is no text.
InitialStores ==
    {EmptyStore,
     save_block(EmptyStore, make_genesis(4, 0)),
     Put(EmptyStore, LATEST, as_bytes(<<"a", "1">>)),
     Put(Put(EmptyStore, as_bytes(<<"a", "1">>), as_bytes(<<"{", "}">>)),
         LATEST, as_bytes(<<"a", "1">>)),
     Put(EmptyStore, LATEST, <<BadByte>>)}

InitStore ==
    /\ disk \in InitialStores
    /\ db = disk
    /\ pending = <<>>
    /\ pc = "store"
    /\ difficulty = 0
    /\ mempool = <<>>
    /\ parent = NoBlock
    /\ header = NoHeader
    /\ block = NoBlock
    /\ hist = NoHist
    /\ IdleHarness

\* save_block(b) returning Ok: both inserts and the flush (main.rs 102-110).
CallSaveBlock ==
    /\ Len(calls) < MaxCalls
    /\ \E b \in SampleBlocks :
           /\ db' = save_block(db, b)
           /\ calls' = Append(calls, [op |-> "save_block", block |-> b, res |-> None])
    /\ disk' = db'
    /\ UNCHANGED <<pending, pc, difficulty, mempool, parent, header, block, hist, args, ret>>

\* get_latest() (main.rs 112-121).
CallGetLatest ==
    /\ Len(calls) < MaxCalls
    /\ calls' = Append(calls, [op |-> "get_latest", block |-> NoBlock,
                               res |-> get_latest(db)])
    /\ UNCHANGED <<disk, db, pending, pc, difficulty, mempool, parent, header, block, hist,
                   args, ret>>

NextStore == CallSaveBlock \/ CallGetLatest

SpecStore == InitStore /\ [][NextStore]_vars

\* ------------------------------------------------------------------------
\* mine_block called on any header template and transaction list
\* ------------------------------------------------------------------------

RECURSIVE SeqsUpTo(_, _)
SeqsUpTo(S, n) ==
    IF n = 0 THEN {<<>>}
    ELSE SeqsUpTo(S, n - 1) \cup {Append(q, x) : q \in SeqsUpTo(S, n - 1), x \in S}

Templates ==
    {BlockHeader(p, m, now, n, d, <<"miner_1">>) :
        p \in {<<"0">>, <<"a", "1">>}, m \in {<<>>, <<"f", "f">>}, now \in {0, MaxTime},
        n \in {0, MaxNonce}, d \in 0..MaxDifficulty}

InitMine ==
    /\ disk = EmptyStore
    /\ db = EmptyStore
    /\ pending = <<>>
    /\ pc = "mine"
    /\ difficulty = 0
    /\ header \in Templates
    /\ mempool \in SeqsUpTo({SampleTxs[1], SampleTxs[2]}, MaxTxs)
    /\ parent = NoBlock
    /\ block = NoBlock
    /\ hist = NoHist
    /\ IdleHarness

SpecMine == InitMine /\ [][MineAttempt]_vars

\* The same, on the templates with the empty merkle_root main gives them, with a fair
\* nonce draw: no nonce is left out for ever, so an iteration that would return
\* with some nonce is not put off for ever.
InitMineFair == InitMine /\ header.merkle_root = <<>>

SpecMineFair ==
    InitMineFair /\ [][MineAttempt]_vars /\ \A nonce \in Nonces : WF_vars(MineWith(nonce))

\* ------------------------------------------------------------------------
\* meets_difficulty called on any hash string and difficulty
\* ------------------------------------------------------------------------

InitDifficulty ==
    /\ disk = EmptyStore
    /\ db = EmptyStore
    /\ pending = <<>>
    /\ pc = "meets_difficulty"
    /\ difficulty = 0
    /\ mempool = <<>>
    /\ parent = NoBlock
    /\ header = NoHeader
    /\ block = NoBlock
    /\ hist = NoHist
    /\ calls = <<>>
    /\ args \in {<<h, d>> : h \in SeqsUpTo({"0", "1", "f"}, MaxLen), d \in 0..MaxDifficulty}
    /\ ret = NoRet

CallMeetsDifficulty ==
    /\ pc = "meets_difficulty"
    /\ ~ret.done
    /\ ret' = [done |-> TRUE, val |-> meets_difficulty(args[1], args[2])]
    /\ UNCHANGED <<disk, db, pending, pc, difficulty, mempool, parent, header, block, hist,
                   calls, args>>

SpecDifficulty == InitDifficulty /\ [][CallMeetsDifficulty]_vars

\* ------------------------------------------------------------------------
\* main started on a store that may hold anything
\* ------------------------------------------------------------------------

InitAnyStore ==
    /\ disk \in InitialStores
    /\ db = EmptyStore
    /\ pending = <<>>
    /\ pc = "start"
    /\ difficulty \in Difficulties
    /\ mempool = <<>>
    /\ parent = NoBlock
    /\ header = NoHeader
    /\ block = NoBlock
    /\ hist = NoHist
    /\ IdleHarness

SpecAnyStore == InitAnyStore /\ [][Next]_vars

\* ------------------------------------------------------------------------
\* merkle_root called on any transaction list
\* ------------------------------------------------------------------------

MerkleTxs == {SampleTxs[1], SampleTxs[2], random_tx("addr_0", "addr_0", 7)}

InitMerkle ==
    /\ disk = EmptyStore
    /\ db = EmptyStore
    /\ pending = <<>>
    /\ pc = "merkle_root"
    /\ difficulty = 0
    /\ mempool = <<>>
    /\ parent = NoBlock
    /\ header = NoHeader
    /\ block = NoBlock
    /\ hist = NoHist
    /\ calls = <<>>
    /\ args \in SeqsUpTo(MerkleTxs, MaxLeaves)
    /\ ret = NoRet

CallMerkleRoot ==
    /\ pc = "merkle_root"
    /\ ~ret.done
    /\ ret' = [done |-> TRUE, val |-> merkle_root(args)]
    /\ UNCHANGED <<disk, db, pending, pc, difficulty, mempool, parent, header, block, hist,
                   calls, args>>

SpecMerkle == InitMerkle /\ [][CallMerkleRoot]_vars

\* ------------------------------------------------------------------------
\* main's bootstrap on an empty store, run with any difficulty
\* ------------------------------------------------------------------------

InitBoot ==
    /\ disk = EmptyStore
    /\ db = EmptyStore
    /\ pending = <<>>
    /\ pc = "start"
    /\ difficulty \in 0..MaxDifficulty
    /\ mempool = <<>>
    /\ parent = NoBlock
    /\ header = NoHeader
    /\ block = NoBlock
    /\ hist = NoHist
    /\ IdleHarness

NextBoot ==
    Open \/ Boot \/ SaveInsertBlock \/ SaveInsertLatest \/ SaveFlush \/ StoreError

SpecBoot == InitBoot /\ [][NextBoot]_vars

\* ------------------------------------------------------------------------
\* Properties
\* ------------------------------------------------------------------------

Last(q) == q[Len(q)]
GenesisSavePcs == {"genesis_insert", "genesis_latest", "genesis_flush"}
BlockSavePcs == {"block_insert", "block_latest", "block_flush"}

\* The keys other than "latest", each with its value, of the store on disk and of
\* the open store.
StoredValues ==
    {<<k, disk[k]>> : k \in DOMAIN disk \ {LATEST}}
        \cup {<<k, db[k]>> : k \in DOMAIN db \ {LATEST}}

\* The harness just made the calls save_block(b1), save_block(b2), and b2 names
\* b1 as its parent.
LinkedSaves ==
    /\ Len(calls) >= 2
    /\ calls[Len(calls) - 1].op = "save_block"
    /\ Last(calls).op = "save_block"
    /\ Last(calls).block.header.parent_hash = calls[Len(calls) - 1].block.hash

\* After the two saves get_latest returns b2 and b1 is still under its own key.
SecondIsTipFirstKept ==
    /\ get_latest(db) = Some(Last(calls).block)
    /\ as_bytes(calls[Len(calls) - 1].block.hash) \in DOMAIN db
    /\ db[as_bytes(calls[Len(calls) - 1].block.hash)] = json_block(calls[Len(calls) - 1].block)

\* C1: a get_latest() that directly follows a successful save_block(b) returns
\* Some(b'), b' equal to b in its header (all six fields), its txs (same
\* transactions, same order) and its hash.
C1_RoundTrip ==
    \A i \in 1..(Len(calls) - 1) :
        (calls[i].op = "save_block" /\ calls[i + 1].op = "get_latest")
            => /\ calls[i + 1].res.tag = "Some"
               /\ calls[i + 1].res.block.header = calls[i].block.header
               /\ calls[i + 1].res.block.txs = calls[i].block.txs
               /\ calls[i + 1].res.block.hash = calls[i].block.hash

\* A block with transactions was saved over an earlier tip and read back.
C1_Witness ==
    /\ Len(calls) = 3
    /\ calls[1].op = "save_block"
    /\ calls[2].op = "save_block"
    /\ calls[2].block.txs = SampleTxs
    /\ calls[2].block # calls[1].block
    /\ calls[3] = [op |-> "get_latest", block |-> NoBlock, res |-> Some(calls[2].block)]

\* C2: get_latest() returns Ok(None) only if the key "latest" is absent; with the
\* key present it returns the decoded block if the block it names is stored and
\* decodes, and an error if that block is missing or does not decode.
C2_GetLatestErrors ==
    (calls # <<>> /\ Last(calls).op = "get_latest")
        => /\ Last(calls).res.tag = "None" => LATEST \notin DOMAIN db
           /\ (LATEST \in DOMAIN db /\ db[LATEST] \notin DOMAIN db)
                  => Last(calls).res.tag = "Err"
           /\ (LATEST \in DOMAIN db /\ db[LATEST] \in DOMAIN db
                                    /\ ~from_slice(db[db[LATEST]]).ok)
                  => Last(calls).res.tag = "Err"
           /\ (LATEST \in DOMAIN db /\ db[LATEST] \in DOMAIN db
                                    /\ from_slice(db[db[LATEST]]).ok)
                  => Last(calls).res = Some(from_slice(db[db[LATEST]]).val)

C4_MinedBlockValid ==
    pc = "block_insert"
        => /\ meets_difficulty(block.hash, block.header.difficulty)
           /\ block.header.merkle_root = merkle_root(block.txs)

\* A block was mined at a difficulty that asks for a zero, from a template whose
\* merkle_root was not that of the transactions.
C4_Witness ==
    /\ pc = "block_insert"
    /\ block.header.difficulty >= 4
    /\ block.txs # <<>>
    /\ header.merkle_root # block.header.merkle_root

\* C5: every block main creates (genesis or mined) and every block in the store
\* has hash = hash_block_header(header), a function of the header alone; the key
\* a block is stored under is that hash.
C5_HashIsHeaderHash ==
    /\ pc \in GenesisSavePcs \cup BlockSavePcs
           => block.hash = hash_block_header(block.header)
    /\ \A v \in StoredValues :
           LET b == from_slice(v[2])
           IN  /\ b.ok
               /\ b.val.hash = hash_block_header(b.val.header)
               /\ v[1] = as_bytes(b.val.hash)

\* A genesis block and a mined block with transactions are stored.
C5_Witness ==
    /\ pc = "clear"
    /\ \E k \in DOMAIN disk \ {LATEST} : from_slice(disk[k]).val.txs # <<>>
    /\ \E k \in DOMAIN disk \ {LATEST} : IsGenesis(from_slice(disk[k]).val)

\* C6: meets_difficulty(h, d) is true exactly when the first d div 4 characters
\* of h exist and are all '0': always for d <= 3, and for 4 <= d <= 7 exactly
\* when h is non-empty and starts with '0'.
C6_MeetsDifficulty ==
    ret.done
        => /\ ret.val <=> /\ Len(args[1]) >= args[2] \div 4
                          /\ \A i \in 1..(args[2] \div 4) : args[1][i] = "0"
           /\ args[2] <= 3 => ret.val
           /\ args[2] \in 4..7 => (ret.val <=> (args[1] # <<>> /\ args[1][1] = "0"))

\* The predicate accepted a hash with one leading zero at a difficulty of 4..7.
C6_Witness ==
    /\ ret.done
    /\ ret.val
    /\ args[2] \in 4..7
    /\ Len(args[1]) = MaxLen
    /\ args[1][2] # "0"

C9_ParentIsTip ==
    /\ pc = "mine"
           => /\ header.parent_hash = parent.hash
              /\ header.difficulty = difficulty
    /\ pc \in BlockSavePcs
           => /\ block.header.parent_hash = parent.hash
              /\ block.header.difficulty = difficulty
    /\ pc \in {"mine", "block_insert"} => get_latest(db) = Some(parent)

\* A second block was mined on top of the first mined block.
C9_Witness ==
    /\ pc = "block_flush"
    /\ hist.height = 1
    /\ ~IsGenesis(parent)
    /\ block.header.parent_hash = parent.hash

\* C10: the mempool is empty when a round starts; the round's block holds
\* exactly the three transactions generated in that round, in generation order,
\* and so shares no transaction with another round's block.
C10_BatchConsumed ==
    /\ pc = "populate" => mempool = <<>> /\ hist.mempoolIds = <<>>
    /\ pc \in {"get_parent", "mine"}
           => /\ Len(mempool) = 3
              /\ hist.mempoolIds = [i \in 1..3 |-> TxId(i)]
    /\ pc \in BlockSavePcs
           => /\ block.txs = mempool
              /\ Len(block.txs) = 3
              /\ hist.blockIds = [i \in 1..3 |-> TxId(i)]

\* The second round's block was mined from the second round's batch.
C10_Witness ==
    /\ pc = "block_insert"
    /\ hist.height = 1
    /\ block.txs = mempool
    /\ hist.blockIds = [i \in 1..3 |-> <<hist.restarts, 2, i>>]

\* Some nonce gives the header under mining, with the merkle_root of the
\* transactions, a hash that meets its difficulty.
SomeNonceMeets ==
    \E root \in {merkle_root(mempool)} :
        \E n \in Nonces :
            \E hashed \in {[header EXCEPT !.nonce = n, !.merkle_root = root]} :
                meets_difficulty(hash_block_header(hashed), header.difficulty)

\* C11: mine_block has no outcome but a block (no attempt cap, no failure), and
\* with a fair nonce draw it returns one whenever the difficulty asks for no more
\* zeros than a digest has characters and some nonce's hash meets it.
C11_MiningTerminates ==
    /\ [](pc \in {"mine", "block_insert"})
    /\ (pc = "mine" /\ header.difficulty \div 4 <= HexLen /\ SomeNonceMeets)
           ~> pc = "block_insert"

\* mine_block returned a block found with a nonce other than the template's, the
\* template's own nonce giving a hash that does not meet the difficulty.
C11_Witness ==
    /\ pc = "block_insert"
    /\ block.header.nonce # header.nonce
    /\ block.header.difficulty >= 4
    /\ ~mine_attempt(header, mempool, header.nonce).found

\* Following parent_hash in the store from block b visits n mined blocks, each
\* with 3 transactions and a hash that meets the configured difficulty, and then
\* the genesis block.
RECURSIVE ChainOf(_, _, _)
ChainOf(store, b, n) ==
    IF n = 0
    THEN IsGenesis(b) /\ b.txs = <<>>
    ELSE /\ ~IsGenesis(b)
         /\ Len(b.txs) = 3
         /\ meets_difficulty(b.hash, difficulty)
         /\ LET p == get_block(store, as_bytes(b.header.parent_hash))
            IN  p.tag = "Some" /\ ChainOf(store, p.block, n - 1)

\* main has saved genesis on the empty store and completed hist.height rounds,
\* with no error, no restart and no two blocks of one hash, and is not inside a
\* save_block.
RoundsCompleted ==
    /\ hist.genesisSaved = 1
    /\ hist.restarts = 0
    /\ ~hist.collided
    /\ pc \in {"populate", "get_parent", "mine", "block_insert", "clear"}

\* C12: from an empty store, after bootstrap and n completed rounds without
\* errors or hash collisions, the store holds exactly n+1 blocks, the tip is the
\* block mined in round n, and parent_hash leads from the tip over n mined blocks
\* (3 transactions each, hash meeting the difficulty) to the genesis block.
C12_ChainGrowth ==
    RoundsCompleted
        => /\ Cardinality(DOMAIN db \ {LATEST}) = hist.height + 1
           /\ db = disk
           /\ LET tip == get_latest(db)
              IN  /\ tip = Some(hist.lastSaved)
                  /\ hist.height >= 1 => tip.block.header.merkle_root
                                             = merkle_root(tip.block.txs)
                  /\ ChainOf(db, tip.block, hist.height)

\* Two rounds are complete: genesis and two mined blocks are stored.
C12_Witness ==
    /\ RoundsCompleted
    /\ pc = "clear"
    /\ hist.height = 2
    /\ Cardinality(DOMAIN db \ {LATEST}) = 3
    /\ ChainOf(db, hist.lastSaved, 2)

\* C13: the block make_genesis(d) returns has parent_hash "0", no transactions,
\* merkle_root "", nonce 0, difficulty d and hash = hash_block_header(header),
\* for every d; main saves it as it is, whether or not its hash meets d.
C13_Genesis ==
    /\ pc \in GenesisSavePcs
           => /\ block.header.parent_hash = <<"0">>
              /\ block.txs = <<>>
              /\ block.header.merkle_root = <<>>
              /\ block.header.nonce = 0
              /\ block.header.difficulty = difficulty
              /\ block.hash = hash_block_header(block.header)
    /\ (pc = "populate" /\ hist.genesisSaved = 1)
           => /\ get_latest(disk) = Some(block)
              /\ block = hist.lastSaved
              /\ IsGenesis(block)

\* main saved a genesis block whose hash does not meet its difficulty.
C13_Witness ==
    /\ pc = "populate"
    /\ hist.genesisSaved = 1
    /\ difficulty >= 4
    /\ block.header.difficulty = difficulty
    /\ ~meets_difficulty(block.hash, difficulty)
    /\ get_latest(disk) = Some(block)

\* The digest, as hex text, of a transaction and of two hex texts put together.
LeafOf(t) == hex_encode(Sha256(json_tx(t)))
PairOf(a, b) == hex_encode(Sha256(as_bytes(a) \o as_bytes(b)))

\* The level above a level: each adjacent pair replaced by its digest, an odd
\* last entry kept as it is.
LevelAbove(level) ==
    [k \in 1..((Len(level) + 1) \div 2) |->
        IF 2 * k <= Len(level) THEN PairOf(level[2 * k - 1], level[2 * k])
        ELSE level[2 * k - 1]]

RECURSIVE TopOf(_)
TopOf(level) == IF Len(level) = 1 THEN level[1] ELSE TopOf(LevelAbove(level))

\* C14: merkle_root of the empty list is the empty string; of a non-empty list
\* it is what is left when the leaf digests, in input order, are paired level by
\* level, an odd trailing entry carried up unchanged: the leaf itself for one
\* transaction, H(H(l1 ++ l2) ++ l3) for three.
C14_MerkleStructure ==
    ret.done
        => /\ args = <<>> => ret.val = <<>>
           /\ args # <<>> => ret.val = TopOf([i \in 1..Len(args) |-> LeafOf(args[i])])
           /\ Len(args) = 1 => ret.val = LeafOf(args[1])
           /\ Len(args) = 2 => ret.val = PairOf(LeafOf(args[1]), LeafOf(args[2]))
           /\ Len(args) = 3
                  => ret.val = PairOf(PairOf(LeafOf(args[1]), LeafOf(args[2])),
                                      LeafOf(args[3]))
           /\ Len(args) = 4
                  => ret.val = PairOf(PairOf(LeafOf(args[1]), LeafOf(args[2])),
                                      PairOf(LeafOf(args[3]), LeafOf(args[4])))
           /\ Len(args) = 5
                  => ret.val = PairOf(PairOf(PairOf(LeafOf(args[1]), LeafOf(args[2])),
                                             PairOf(LeafOf(args[3]), LeafOf(args[4]))),
                                      LeafOf(args[5]))

\* The root of three different transactions was computed; pairing the third leaf
\* with itself would have given another root.
C14_Witness ==
    /\ ret.done
    /\ Len(args) = 3
    /\ args[1] # args[2] /\ args[2] # args[3] /\ args[1] # args[3]
    /\ ret.val = PairOf(PairOf(LeafOf(args[1]), LeafOf(args[2])), LeafOf(args[3]))
    /\ ret.val # PairOf(PairOf(LeafOf(args[1]), LeafOf(args[2])),
                        PairOf(LeafOf(args[3]), LeafOf(args[3])))

\* txs with the entries at positions i and j exchanged.
Swapped(txs, i, j) == [txs EXCEPT ![i] = txs[j], ![j] = txs[i]]

\* The byte strings hashed on the way from a level to the top, and all those
\* hashed for a transaction list.
RECURSIVE PairInputs(_)
PairInputs(level) ==
    IF Len(level) <= 1 THEN {}
    ELSE {as_bytes(level[2 * k - 1]) \o as_bytes(level[2 * k]) : k \in 1..(Len(level) \div 2)}
             \cup PairInputs(LevelAbove(level))

HashInputs(txs) ==
    {json_tx(txs[i]) : i \in 1..Len(txs)}
        \cup PairInputs([i \in 1..Len(txs) |-> LeafOf(txs[i])])

\* No two different strings of a set have the same digest.
CollisionFree(inputs) == \A x, y \in inputs : Sha256(x) = Sha256(y) => x = y

\* C15: merkle_root gives the same root each time it is given a list, and a
\* different root when two entries that are different transactions change
\* places, as long as no two strings hashed for the two lists collide.
C15_OrderSensitive ==
    ret.done
        => /\ merkle_root(args) = ret.val
           /\ \A i, j \in 1..Len(args) :
                  (/\ args[i] # args[j]
                   /\ CollisionFree(HashInputs(args) \cup HashInputs(Swapped(args, i, j))))
                      => merkle_root(Swapped(args, i, j)) # ret.val

\* A list of three whose first and last entries differ: the two orders hash
\* without a collision and give different roots.
C15_Witness ==
    /\ ret.done
    /\ Len(args) = 3
    /\ args[1] # args[3]
    /\ CollisionFree(HashInputs(args) \cup HashInputs(Swapped(args, 1, 3)))
    /\ merkle_root(Swapped(args, 1, 3)) # ret.val
    /\ merkle_root(args) = ret.val

\* A step of the running process, as opposed to the step that starts a new one.
SameProcess == hist'.restarts = hist.restarts

\* C16: a store error ends main: the failing call, be it open, a read, a write,
\* the flush or the decoding of what was read, leaves main returned with the
\* store as it was, and a returned main takes no further step: no retry, no
\* write, no mining, no genesis block; only a new process follows.
C16_StoreErrorsFatal ==
    [][/\ StoreError => pc' = "failed" /\ UNCHANGED <<disk, db, pending>>
       /\ (pc \in {"boot", "get_parent"} /\ get_latest(db).tag = "Err" /\ SameProcess)
              => pc' = "failed" /\ UNCHANGED <<disk, db, pending, block>>
       /\ pc = "failed" => pc' = "start" /\ ~SameProcess]_vars

\* main has returned with genesis saved and writes of a later save_block made
\* but not flushed.
C16_Witness ==
    /\ pc = "failed"
    /\ hist.genesisSaved = 1
    /\ hist.restarts = 0
    /\ Len(pending) = 2
    /\ db # disk

\* main has returned from its first read of a store it could not decode, having
\* written nothing.
C16_DecodeWitness ==
    /\ pc = "failed"
    /\ get_latest(db).tag = "Err"
    /\ db = disk
    /\ hist.restarts = 0
    /\ ~hist.everSaved

\* Every key of the store but "latest" is still there after the step, with the
\* value it had.
BlocksKept(store, storeAfter) ==
    \A k \in DOMAIN store \ {LATEST} : k \in DOMAIN storeAfter /\ storeAfter[k] = store[k]

\* C17: blocks are write-once: as long as no two blocks share a hash, no step of
\* a run of main removes or changes a value written under a block's hash, in the
\* open store, and none does on disk, a crash and a new start included; the only
\* key whose value a step replaces is "latest".
C17_WriteOnce ==
    [][~hist'.collided
          => /\ SameProcess => BlocksKept(db, db')
             /\ BlocksKept(disk, disk')
             /\ \A k \in DOMAIN db \cap DOMAIN db' : db'[k] # db[k] => k = LATEST]_vars

\* A second block has been saved: the pointer has moved from the parent to it,
\* and the parent is still stored, unchanged, under its hash.
C17_Witness ==
    /\ pc = "clear"
    /\ ~hist.collided
    /\ block = hist.lastSaved
    /\ IsGenesis(parent)
    /\ db[LATEST] = as_bytes(block.hash)
    /\ block.hash # parent.hash
    /\ db[as_bytes(parent.hash)] = json_block(parent)
    /\ disk[as_bytes(parent.hash)] = json_block(parent)
    /\ db[as_bytes(block.hash)] = json_block(block)

\* C18: in main's loop the tip is never absent: whenever main is about to fetch
\* the parent, in its first round or a later one, get_latest on the open store
\* returns a block, so the expectation "latest exists" holds.
C18_TipExists ==
    pc \in {"populate", "get_parent"}
        => /\ get_latest(db).tag = "Some"
           /\ hist.restarts = 0 => get_latest(db) = Some(hist.lastSaved)

\* main is about to fetch the parent in its second round, in a run that was
\* never interrupted: the tip is the block mined in the first round.
C18_Witness ==
    /\ pc = "get_parent"
    /\ hist.restarts = 0
    /\ hist.height = 1
    /\ Len(mempool) = 3
    /\ get_latest(db).tag = "Some"
    /\ ~IsGenesis(get_latest(db).block)

\* C19: save_block inserts the block, then the pointer, and flushes once after
\* both, so in the open store, at every point of a process - between the two
\* inserts and after a step of save_block failed included - "latest" is absent
\* or names a key under which a block is stored.
C19_PointerNeverDangles ==
    /\ LATEST \in DOMAIN db
           => /\ db[LATEST] \in DOMAIN db \ {LATEST}
              /\ get_latest(db).tag = "Some"
    /\ pc \in {"genesis_latest", "block_latest"}
           => /\ Len(pending) = 1
              /\ pending[1][1] = as_bytes(block.hash)
              /\ db = Put(disk, as_bytes(block.hash), json_block(block))
    /\ pc \in {"genesis_flush", "block_flush"}
           => /\ Len(pending) = 2
              /\ pending[1][1] = as_bytes(block.hash)
              /\ pending[2] = <<LATEST, as_bytes(block.hash), block>>
              /\ db = Apply(disk, pending)
              /\ db # disk
    /\ pc \in {"populate", "get_parent", "mine", "block_insert", "clear"}
           => pending = <<>> /\ db = disk

\* save_block of a mined block failed at its second insert: the block is in the
\* open store, unflushed, and the pointer still names the stored parent.
C19_Witness ==
    /\ pc = "failed"
    /\ hist.restarts = 0
    /\ hist.genesisSaved = 1
    /\ Len(pending) = 1
    /\ pending[1][1] # db[LATEST]
    /\ pending[1][1] \in DOMAIN db
    /\ get_latest(db) = Some(hist.lastSaved)

\* C20: save_block checks nothing: whatever the store holds and whatever block b
\* it is given - one that does not name the tip as its parent, whose hash fails
\* its difficulty or is not the hash of its header, or whose hash already keys
\* another block - it stores b under b.hash, replacing what was there, points
\* "latest" at it and flushes: b is the tip.
C20_NoValidation ==
    (calls # <<>> /\ Last(calls).op = "save_block")
        => LET b == Last(calls).block
           IN  /\ as_bytes(b.hash) \in DOMAIN db
               /\ db[as_bytes(b.hash)] = json_block(b)
               /\ db[LATEST] = as_bytes(b.hash)
               /\ get_latest(db) = Some(b)
               /\ disk = db

\* b2 was saved right after b1: it has b1's hash but is another block, does not
\* name b1 as its parent, and its hash neither meets its difficulty nor is the
\* hash of its header; b2 is the tip and b1 is gone.
C20_Witness ==
    /\ Len(calls) >= 2
    /\ calls[Len(calls) - 1].op = "save_block"
    /\ Last(calls).op = "save_block"
    /\ LET b1 == calls[Len(calls) - 1].block
           b2 == Last(calls).block
       IN  /\ b2.hash = b1.hash
           /\ b2 # b1
           /\ b2.header.parent_hash # b1.hash
           /\ ~meets_difficulty(b2.hash, b2.header.difficulty)
           /\ b2.hash # hash_block_header(b2.header)
           /\ get_latest(db) = Some(b2)
           /\ json_block(b1) \notin {db[k] : k \in DOMAIN db}

====
